---- MODULE Spec2Model ----
(***************************************************************************)
(* Model of HeartbeatManager (src/src/heartbeatManager.ts).                *)
(*                                                                         *)
(* The manager's fields are the variables of the same name.  The sockets   *)
(* are external collaborators: of a socket the model keeps what the        *)
(* manager can observe or change (readyState, the manager's listeners) and *)
(* counts the ping() and terminate() calls of the last callback.           *)
(*                                                                         *)
(* Every callback of the single-threaded runtime is one action.  The body  *)
(* of a method is an operator over a record `m` holding the mutable state  *)
(* a callback can touch; a raised exception is the field `exc`, which the  *)
(* statements after the raising one see and skip, and which a try/catch    *)
(* clears.                                                                 *)
(***************************************************************************)
EXTENDS Integers, FiniteSets, TLC

\* ---------------------------------------------------------------- bounds
NumSockets == 2
MaxTime == 101
MaxTimeRotation == 150
MaxTimeTimed == 22

Sockets == 1..NumSockets

\* Constructor options the managers of the model are built from.
IntervalOpts == {100}
TimeoutOpts == {50, 100}
TickOpts == {50}
MaxBucketsOpts == {2}
StartJitterOpts == {2}

\* Constructor options of the managers whose timers fire on time: one bucket
\* swept every 10 ms, and a start jitter longer than timeoutMs.
TimedIntervalOpts == {10}
TimedTimeoutOpts == {10}
TimedJitterOpts == {13}

\* ------------------------------------------------------------- constants
WS_OPEN == 1
WS_CLOSED == 3

VARIABLES
    clients,          \* Map<WebSocket, ClientState>: function on the tracked sockets
    buckets,          \* Array<Set<WebSocket>>: function 0..bucketCount-1 -> set
    bucketIndex,      \* rotation cursor
    startDelayTimer,  \* {} (undefined) or {due time}
    tickTimer,        \* {} (undefined) or {due time of the next firing}
    intervalMs, timeoutMs, tickMs, startJitterMs,
    readyState,       \* socket -> ws.readyState
    listeners,        \* socket -> event -> number of manager listeners attached
    now,              \* performance.now()
    ackAt,            \* tracked socket -> the instant of its last pong event, or of
                      \* its enrollment if none came, and whether a pong event came
                      \* at a later instant than the enrollment (observer, not read
                      \* by the code)
    last,             \* the callback that ran last and the calls it made on sockets
    watch,            \* which observer runs: "none", "rotation" or "probes" (fixed
                      \* in the initial state)
    obs               \* what the observer has noted of each tracked socket
                      \* (observer, not read by the code)

opts == <<intervalMs, timeoutMs, tickMs, startJitterMs>>
vars == <<clients, buckets, bucketIndex, startDelayTimer, tickTimer,
          intervalMs, timeoutMs, tickMs, startJitterMs,
          readyState, listeners, now, ackAt, last, watch, obs>>

\* ------------------------------------------------------------ arithmetic
Max(a, b) == IF a >= b THEN a ELSE b
Min(a, b) == IF a <= b THEN a ELSE b
\* Math.round(a / b) for positive integers a, b: halves round up.
RoundDiv(a, b) == (2 * a + b) \div (2 * b)

\* ----------------------------------------------------------- constructor
\* The throw conditions of the constructor, negated (integer options).
ValidOptions(interval, timeout, desiredTick, maxBuckets, startJitter) ==
    /\ interval > 0
    /\ timeout >= interval
    /\ desiredTick > 0
    /\ maxBuckets >= 1
    /\ startJitter >= 0

BucketCountOf(interval, desiredTick, maxBuckets) ==
    Min(maxBuckets, Max(1, RoundDiv(interval, Max(50, desiredTick))))

EffectiveTickMs(interval, bucketCount) ==
    Max(10, RoundDiv(interval, bucketCount))


ZeroCalls == [w \in Sockets |-> 0]
NoListeners == [ev \in {"pong", "close", "error"} |-> 0]
EmptyMap == [w \in {} |-> 0]

\* What is recorded of a callback: its name and arguments, whether its socket
\* was tracked when it began, for a sweep the entries of the swept bucket when
\* it began, the number of ping() and terminate() calls it made on each
\* socket, the sockets whose ping() and whose terminate() raised, the sockets
\* that carried a manager listener when terminate() was called on them, and
\* whether an exception left the callback.
Record(op, ws, flag, was, swept, pinged, terminated, pingThrew, termThrew, termAttached, threw) ==
    [op |-> op, ws |-> ws, flag |-> flag, was |-> was, swept |-> swept,
     pinged |-> pinged, terminated |-> terminated, pingThrew |-> pingThrew,
     termThrew |-> termThrew, termAttached |-> termAttached, threw |-> threw]

Idle(op, ws) ==
    Record(op, ws, FALSE, FALSE, EmptyMap, ZeroCalls, ZeroCalls, {}, {}, {}, FALSE)

\* new HeartbeatManager(options) with options drawn from the given sets, and
\* sockets that are open and carry no manager listener.
Constructed(intervals, timeouts, startJitters) ==
    /\ \E interval \in intervals, timeout \in timeouts, desiredTick \in TickOpts,
          maxBuckets \in MaxBucketsOpts, startJitter \in startJitters :
          /\ ValidOptions(interval, timeout, desiredTick, maxBuckets, startJitter)
          /\ intervalMs = interval
          /\ timeoutMs = timeout
          /\ startJitterMs = startJitter
          /\ LET bucketCount == BucketCountOf(interval, desiredTick, maxBuckets)
             IN  /\ tickMs = EffectiveTickMs(interval, bucketCount)
                 /\ buckets = [i \in 0..(bucketCount - 1) |-> {}]
    /\ clients = EmptyMap
    /\ bucketIndex = 0
    /\ startDelayTimer = {}
    /\ tickTimer = {}
    /\ readyState = [w \in Sockets |-> WS_OPEN]
    /\ listeners = [w \in Sockets |-> NoListeners]
    /\ now = 0
    /\ ackAt = EmptyMap
    /\ last = Idle("new", 0)
    /\ obs = EmptyMap

Init ==
    /\ Constructed(IntervalOpts, TimeoutOpts, StartJitterOpts)
    /\ watch = "none"

\* ------------------------------------------------- the state of a callback
\* The mutable state a callback works on.
Begin ==
    [clients |-> clients, buckets |-> buckets, bucketIndex |-> bucketIndex,
     startDelayTimer |-> startDelayTimer, tickTimer |-> tickTimer,
     readyState |-> readyState, listeners |-> listeners,
     pinged |-> ZeroCalls, terminated |-> ZeroCalls, pingThrew |-> {},
     termThrew |-> {}, termAttached |-> {}, exc |-> FALSE]

\* try { ... } catch { }: the exception raised inside is swallowed.
Catch(m) == [m EXCEPT !.exc = FALSE]

\* ws.terminate(): may raise; on success the socket leaves the open state.
\* The call is noted in termAttached if a manager listener is on the socket
\* when it is made.
terminateCall(m, ws, throws) ==
    LET m1 == IF m.listeners[ws] # NoListeners
              THEN [m EXCEPT !.termAttached = @ \cup {ws}]
              ELSE m
    IN  IF throws
        THEN [m1 EXCEPT !.terminated[ws] = @ + 1, !.termThrew = @ \cup {ws}, !.exc = TRUE]
        ELSE [m1 EXCEPT !.terminated[ws] = @ + 1, !.readyState[ws] = WS_CLOSED]

\* ws.ping(): may raise.
pingCall(m, ws, throws) ==
    IF throws
    THEN [m EXCEPT !.pinged[ws] = @ + 1, !.pingThrew = @ \cup {ws}, !.exc = TRUE]
    ELSE [m EXCEPT !.pinged[ws] = @ + 1]

\* ws.on / ws.once / ws.off of one manager listener.
on(m, ws, ev) == [m EXCEPT !.listeners[ws][ev] = @ + 1]
off(m, ws, ev) == [m EXCEPT !.listeners[ws][ev] = IF @ > 0 THEN @ - 1 ELSE 0]

\* Map.delete
MapDelete(f, k) == [x \in (DOMAIN f) \ {k} |-> f[x]]

\* bucketAt: the index of the bucket that `this.buckets[index] ?? first` yields.
\* bucketCount >= 1 in every manager the constructor returns, so `first` exists.
bucketAt(bs, index) == IF index \in DOMAIN bs THEN index ELSE 0

\* ---------------------------------------------------------------- timers
stopTimers(m) ==
    [m EXCEPT !.startDelayTimer = {}, !.tickTimer = {}]

\* Mutant: the tick timer is never started.
startTickTimer_never(m) == m

startTickTimer(m) ==
    IF m.tickTimer # {} THEN m
    ELSE [m EXCEPT !.tickTimer = {now + tickMs}]

\* Mutant: no check for a timer that is already set.
startTimersIfNeeded_noGuard(m, delay) ==
    IF delay = 0 THEN startTickTimer(m)
    ELSE [m EXCEPT !.startDelayTimer = {now + delay}]

\* delay is the value of Math.floor(Math.random() * startJitterMs), or 0.
startTimersIfNeeded(m, delay) ==
    IF m.tickTimer # {} \/ m.startDelayTimer # {} THEN m
    ELSE IF delay = 0 THEN startTickTimer(m)
    ELSE [m EXCEPT !.startDelayTimer = {now + delay}]

\* Of the values 0..startJitterMs-1 the two smallest and the largest are drawn.
Delays ==
    IF startJitterMs > 0
    THEN {d \in 0..(startJitterMs - 1) : d <= 1 \/ d = startJitterMs - 1}
    ELSE {0}

\* ---------------------------------------------------------- removeClient
\* Mutant: the timers keep running when the last client is removed.
removeClient_keepsTimers(m, ws, terminate, throws) ==
    LET m1 == IF terminate THEN Catch(terminateCall(m, ws, throws)) ELSE m
    IN  IF m1.exc \/ ws \notin DOMAIN m1.clients THEN m1
        ELSE LET state == m1.clients[ws]
                 b == bucketAt(m1.buckets, state.bucket)
                 m2 == off(off(off(m1, ws, "pong"), ws, "close"), ws, "error")
             IN  [m2 EXCEPT !.buckets[b] = @ \ {ws},
                            !.clients = MapDelete(@, ws)]

\* Mutant: the pong listener is left on the socket.
removeClient_leavesPong(m, ws, terminate, throws) ==
    LET m1 == IF terminate THEN Catch(terminateCall(m, ws, throws)) ELSE m
    IN  IF m1.exc \/ ws \notin DOMAIN m1.clients THEN m1
        ELSE LET state == m1.clients[ws]
                 b == bucketAt(m1.buckets, state.bucket)
                 m2 == off(off(m1, ws, "close"), ws, "error")
                 m3 == [m2 EXCEPT !.buckets[b] = @ \ {ws},
                                  !.clients = MapDelete(@, ws)]
             IN  IF DOMAIN m3.clients = {} THEN stopTimers(m3) ELSE m3

\* Mutant: terminate() is called outside a try/catch.
removeClient_noCatch(m, ws, terminate, throws) ==
    LET m1 == IF terminate THEN terminateCall(m, ws, throws) ELSE m
    IN  IF m1.exc \/ ws \notin DOMAIN m1.clients THEN m1
        ELSE LET state == m1.clients[ws]
                 b == bucketAt(m1.buckets, state.bucket)
                 m2 == off(off(off(m1, ws, "pong"), ws, "close"), ws, "error")
                 m3 == [m2 EXCEPT !.buckets[b] = @ \ {ws},
                                  !.clients = MapDelete(@, ws)]
             IN  IF DOMAIN m3.clients = {} THEN stopTimers(m3) ELSE m3

\* Mutant: the socket is looked up before terminate() is called.
removeClient_lookupFirst(m, ws, terminate, throws) ==
    IF ws \notin DOMAIN m.clients THEN m
    ELSE LET m1 == IF terminate THEN Catch(terminateCall(m, ws, throws)) ELSE m
             state == m1.clients[ws]
             b == bucketAt(m1.buckets, state.bucket)
             m2 == off(off(off(m1, ws, "pong"), ws, "close"), ws, "error")
             m3 == [m2 EXCEPT !.buckets[b] = @ \ {ws},
                              !.clients = MapDelete(@, ws)]
         IN  IF DOMAIN m3.clients = {} THEN stopTimers(m3) ELSE m3

\* Mutant: the registry entry and the bucket membership are kept.
removeClient_keepsEntry(m, ws, terminate, throws) ==
    LET m1 == IF terminate THEN Catch(terminateCall(m, ws, throws)) ELSE m
    IN  IF m1.exc \/ ws \notin DOMAIN m1.clients THEN m1
        ELSE off(off(off(m1, ws, "pong"), ws, "close"), ws, "error")

\* Mutant: the bucket membership outlives the registry entry.
removeClient_leavesBucket(m, ws, terminate, throws) ==
    LET m1 == IF terminate THEN Catch(terminateCall(m, ws, throws)) ELSE m
    IN  IF m1.exc \/ ws \notin DOMAIN m1.clients THEN m1
        ELSE LET m2 == off(off(off(m1, ws, "pong"), ws, "close"), ws, "error")
                 m3 == [m2 EXCEPT !.clients = MapDelete(@, ws)]
             IN  IF DOMAIN m3.clients = {} THEN stopTimers(m3) ELSE m3

removeClient(m, ws, terminate, throws) ==
    LET m1 == IF terminate THEN Catch(terminateCall(m, ws, throws)) ELSE m
    IN  IF m1.exc \/ ws \notin DOMAIN m1.clients THEN m1
        ELSE LET state == m1.clients[ws]
                 b == bucketAt(m1.buckets, state.bucket)
                 m2 == off(off(off(m1, ws, "pong"), ws, "close"), ws, "error")
                 m3 == [m2 EXCEPT !.buckets[b] = @ \ {ws},
                                  !.clients = MapDelete(@, ws)]
             IN  IF DOMAIN m3.clients = {} THEN stopTimers(m3) ELSE m3

\* ------------------------------------------------------------- addClient
\* Mutant: no check for an already tracked socket.
addClient_noGuard(m, ws, bucket, delay) ==
    LET state == [lastPongAt |-> now, bucket |-> bucket]
        b == bucketAt(m.buckets, bucket)
        m1 == [m EXCEPT !.clients = (ws :> state) @@ @,
                        !.buckets[b] = @ \cup {ws}]
        m2 == on(on(on(m1, ws, "pong"), ws, "close"), ws, "error")
    IN  startTimersIfNeeded(m2, delay)

addClient(m, ws, bucket, delay) ==
    IF ws \in DOMAIN m.clients THEN m
    ELSE LET state == [lastPongAt |-> now, bucket |-> bucket]
             b == bucketAt(m.buckets, bucket)
             m1 == [m EXCEPT !.clients = (ws :> state) @@ @,
                             !.buckets[b] = @ \cup {ws}]
             m2 == on(on(on(m1, ws, "pong"), ws, "close"), ws, "error")
         IN  startTimersIfNeeded(m2, delay)

\* ------------------------------------------------------------- observers
\* A tick examined w: it called ping() or terminate() on it or removed it.
Examined(m, w) ==
    \/ m.pinged[w] > 0
    \/ m.terminated[w] > 0
    \/ w \in DOMAIN clients /\ w \notin DOMAIN m.clients

\* Rotation observer: of each tracked socket, the number of ticks that fired
\* without examining it since it was enrolled or last examined (counted up to
\* bucketCount), and whether a tick has examined it since it was enrolled.  A
\* socket that was tracked and has been removed keeps an entry.
ObserveRotation(m, op) ==
    [w \in DOMAIN m.clients \cup DOMAIN obs |->
        IF w \notin DOMAIN m.clients \/ w \notin DOMAIN clients
        THEN [ticks |-> 0, examined |-> FALSE]
        ELSE IF op # "tick" THEN obs[w]
        ELSE IF Examined(m, w) THEN [ticks |-> 0, examined |-> TRUE]
        ELSE [ticks |-> Min(obs[w].ticks + 1, Cardinality(DOMAIN buckets)),
              examined |-> obs[w].examined]]

\* Probe observer: of each tracked socket, whether a probe sent to it is still
\* unanswered, and whether a tick ever fired while one was.
ObserveProbes(m, op, ws) ==
    [w \in DOMAIN m.clients |->
        IF w \notin DOMAIN clients THEN [awaiting |-> FALSE, lapsed |-> FALSE]
        ELSE IF op = "tick"
        THEN [awaiting |-> obs[w].awaiting \/ (m.pinged[w] > 0 /\ w \notin m.pingThrew),
              lapsed |-> obs[w].lapsed \/ obs[w].awaiting]
        ELSE IF op = "pong" /\ w = ws
        THEN [awaiting |-> FALSE, lapsed |-> obs[w].lapsed]
        ELSE obs[w]]

Observe(m, op, ws) ==
    IF watch = "rotation" THEN ObserveRotation(m, op)
    ELSE IF watch = "probes" THEN ObserveProbes(m, op, ws)
    ELSE obs

\* ---------------------------------------------------------------- commit
\* The callback `op` ends in state m.
Commit(m, op, ws, flag) ==
    /\ clients' = m.clients
    /\ buckets' = m.buckets
    /\ bucketIndex' = m.bucketIndex
    /\ startDelayTimer' = m.startDelayTimer
    /\ tickTimer' = m.tickTimer
    /\ readyState' = m.readyState
    /\ listeners' = m.listeners
    /\ last' = Record(op, ws, flag, ws \in DOMAIN clients,
                      IF op = "tick"
                      THEN [w \in buckets[bucketAt(buckets, bucketIndex)] \cap DOMAIN clients
                              |-> clients[w]]
                      ELSE EmptyMap,
                      m.pinged, m.terminated, m.pingThrew, m.termThrew,
                      m.termAttached, m.exc)
    /\ ackAt' = [w \in DOMAIN m.clients |->
                   IF w \notin DOMAIN clients THEN [at |-> now, byPong |-> FALSE]
                   ELSE IF op = "pong" /\ w = ws /\ now > ackAt[w].at
                   THEN [at |-> now, byPong |-> TRUE]
                   ELSE ackAt[w]]
    /\ obs' = Observe(m, op, ws)
    /\ UNCHANGED <<opts, now, watch>>

\* Math.random is read twice, for the bucket and for the start delay; a value
\* the call does not read is fixed.
AddClient(ws) ==
    \E bucket \in DOMAIN buckets, delay \in Delays :
        /\ (ws \in DOMAIN clients => bucket = 0)
        /\ (ws \in DOMAIN clients \/ tickTimer # {} \/ startDelayTimer # {} => delay = 0)
        /\ Commit(addClient(Begin, ws, bucket, delay), "addClient", ws, FALSE)

RemoveClient(ws, terminate) ==
    \E throws \in BOOLEAN :
        /\ (throws => terminate)
        /\ Commit(removeClient(Begin, ws, terminate, throws), "removeClient", ws, terminate)

\* -------------------------------------------------------------- shutdown
\* The loop over the snapshot Array.from(this.clients.keys()).  The calls on
\* different sockets do not interact, so the order of the snapshot is not
\* observable in the state.
\* Mutant: the clients are removed without being terminated.
RECURSIVE removeAll_noTerminate(_, _, _)
removeAll_noTerminate(m, keys, termThrowers) ==
    IF keys = {} \/ m.exc THEN m
    ELSE LET ws == CHOOSE w \in keys : \A v \in keys : w <= v
         IN  removeAll_noTerminate(removeClient(m, ws, FALSE, FALSE),
                                   keys \ {ws}, termThrowers)

RECURSIVE removeAll(_, _, _)
removeAll(m, keys, termThrowers) ==
    IF keys = {} \/ m.exc THEN m
    ELSE LET ws == CHOOSE w \in keys : \A v \in keys : w <= v
         IN  removeAll(removeClient(m, ws, TRUE, ws \in termThrowers),
                       keys \ {ws}, termThrowers)

shutdown(m, termThrowers) ==
    LET m1 == stopTimers(m)
    IN  removeAll(m1, DOMAIN m1.clients, termThrowers)

\* ------------------------------------------------------------------ tick
\* Mutant: the boundary instant counts as a timeout.
timedOut_inclusive(state) == now - state.lastPongAt >= timeoutMs

\* now - state.lastPongAt > this.timeoutMs
timedOut(state) == now - state.lastPongAt > timeoutMs

\* Mutant: the timeout is tested before the ready state.
sweepOne_timeoutFirst(m, b, ws, pingThrows, termThrows) ==
    IF ws \notin DOMAIN m.clients
    THEN [m EXCEPT !.buckets[b] = @ \ {ws}]
    ELSE IF timedOut(m.clients[ws])
    THEN removeClient(m, ws, TRUE, termThrows)
    ELSE IF m.readyState[ws] # WS_OPEN
    THEN removeClient(m, ws, FALSE, FALSE)
    ELSE LET m1 == pingCall(m, ws, pingThrows)
         IN  IF m1.exc THEN removeClient(Catch(m1), ws, TRUE, termThrows)
             ELSE m1

\* Mutant: ping() is called outside a try/catch.
sweepOne_noCatch(m, b, ws, pingThrows, termThrows) ==
    IF ws \notin DOMAIN m.clients
    THEN [m EXCEPT !.buckets[b] = @ \ {ws}]
    ELSE IF m.readyState[ws] # WS_OPEN
    THEN removeClient(m, ws, FALSE, FALSE)
    ELSE IF timedOut(m.clients[ws])
    THEN removeClient(m, ws, TRUE, termThrows)
    ELSE pingCall(m, ws, pingThrows)

\* One iteration of the loop of tick, for the member ws of bucket b.
sweepOne(m, b, ws, pingThrows, termThrows) ==
    IF ws \notin DOMAIN m.clients
    THEN [m EXCEPT !.buckets[b] = @ \ {ws}]
    ELSE IF m.readyState[ws] # WS_OPEN
    THEN removeClient(m, ws, FALSE, FALSE)
    ELSE IF timedOut(m.clients[ws])
    THEN removeClient(m, ws, TRUE, termThrows)
    ELSE LET m1 == pingCall(m, ws, pingThrows)
         IN  IF m1.exc THEN removeClient(Catch(m1), ws, TRUE, termThrows)
             ELSE m1

\* for (const ws of bucket): the members not yet visited are todo; a member
\* deleted from the live set before its turn is not visited.
RECURSIVE sweep(_, _, _, _, _)
sweep(m, b, todo, pingThrowers, termThrowers) ==
    IF todo = {} \/ m.exc THEN m
    ELSE LET ws == CHOOSE w \in todo : \A v \in todo : w <= v
             m1 == IF ws \in m.buckets[b]
                   THEN sweepOne(m, b, ws, ws \in pingThrowers, ws \in termThrowers)
                   ELSE m
         IN  sweep(m1, b, todo \ {ws}, pingThrowers, termThrowers)

\* Mutant: the cursor wraps one step late.
advanceCursor_wrapsLate(m) ==
    LET next == m.bucketIndex + 1
    IN  [m EXCEPT !.bucketIndex = IF next > Cardinality(DOMAIN m.buckets) THEN 0 ELSE next]

\* this.bucketIndex += 1; if (this.bucketIndex >= this.buckets.length) this.bucketIndex = 0
advanceCursor(m) ==
    LET next == m.bucketIndex + 1
    IN  [m EXCEPT !.bucketIndex = IF next >= Cardinality(DOMAIN m.buckets) THEN 0 ELSE next]

\* Mutant: every tick sweeps the first bucket.
tick_firstBucket(m, pingThrowers, termThrowers) ==
    LET m1 == sweep(m, 0, m.buckets[0], pingThrowers, termThrowers)
    IN  IF m1.exc THEN m1 ELSE advanceCursor(m1)

tick(m, pingThrowers, termThrowers) ==
    LET b == bucketAt(m.buckets, m.bucketIndex)
        m1 == sweep(m, b, m.buckets[b], pingThrowers, termThrowers)
    IN  IF m1.exc THEN m1 ELSE advanceCursor(m1)

\* ------------------------------------------------------- socket listeners
\* Mutant: the pong listener does not refresh the deadline.
onPong_ignored(m, ws) == m

\* state.onPong
onPong(m, ws) ==
    IF ws \in DOMAIN m.clients
    THEN [m EXCEPT !.clients[ws].lastPongAt = now]
    ELSE m

\* state.onClose
onClose(m, ws) == removeClient(m, ws, FALSE, FALSE)

\* Mutant: the error listener removes the client without terminating it.
onError_noTerminate(m, ws, throws) == removeClient(m, ws, FALSE, FALSE)

\* state.onError
onError(m, ws, throws) == removeClient(m, ws, TRUE, throws)

\* ws.emit(ev): every attached manager listener runs once; those attached
\* with ws.once are detached before they run.
RECURSIVE emitPong(_, _, _)
emitPong(m, ws, n) ==
    IF n = 0 \/ m.exc THEN m ELSE emitPong(onPong(m, ws), ws, n - 1)

RECURSIVE emitClose(_, _, _)
emitClose(m, ws, n) ==
    IF n = 0 \/ m.exc THEN m ELSE emitClose(onClose(off(m, ws, "close"), ws), ws, n - 1)

RECURSIVE emitError(_, _, _, _)
emitError(m, ws, n, throws) ==
    IF n = 0 \/ m.exc THEN m
    ELSE emitError(onError(off(m, ws, "error"), ws, throws), ws, n - 1, throws)

\* --------------------------------------------------------------- actions
Shutdown ==
    \E termThrowers \in SUBSET (DOMAIN clients) :
        Commit(shutdown(Begin, termThrowers), "shutdown", 0, TRUE)

\* The setInterval callback; the interval is re-armed unless the callback
\* cleared it.
Tick ==
    /\ tickTimer # {}
    /\ \A due \in tickTimer : now >= due
    /\ LET b == bucketAt(buckets, bucketIndex)
           open == {w \in buckets[b] \cap DOMAIN clients : readyState[w] = WS_OPEN}
           probed == {w \in open : ~timedOut(clients[w])}
       IN  \E pingThrowers \in SUBSET probed :
           \E termThrowers \in SUBSET ((open \ probed) \cup pingThrowers) :
             LET m == tick(Begin, pingThrowers, termThrowers)
                 m1 == IF m.tickTimer # {} THEN [m EXCEPT !.tickTimer = {now + tickMs}]
                       ELSE m
             IN  Commit(m1, "tick", 0, FALSE)

\* The setTimeout callback of startTimersIfNeeded.
StartDelayFire ==
    /\ startDelayTimer # {}
    /\ \A due \in startDelayTimer : now >= due
    /\ LET m == [Begin EXCEPT !.startDelayTimer = {}]
           m1 == IF DOMAIN m.clients # {} THEN startTickTimer(m) ELSE m
       IN  Commit(m1, "startDelay", 0, FALSE)

EmitPong(ws) ==
    Commit(emitPong(Begin, ws, listeners[ws]["pong"]), "pong", ws, FALSE)

EmitClose(ws) ==
    Commit(emitClose(Begin, ws, listeners[ws]["close"]), "close", ws, FALSE)

EmitError(ws) ==
    \E throws \in BOOLEAN :
        /\ (throws => listeners[ws]["error"] > 0)
        /\ Commit(emitError(Begin, ws, listeners[ws]["error"], throws), "error", ws, throws)

\* The transport closes the socket.
SocketCloses(ws) ==
    /\ readyState[ws] = WS_OPEN
    /\ readyState' = [readyState EXCEPT ![ws] = WS_CLOSED]
    /\ last' = Idle("socketCloses", ws)
    /\ UNCHANGED <<ackAt, clients, buckets, bucketIndex, startDelayTimer, tickTimer,
                   opts, listeners, now, watch, obs>>

\* Time passes.  Callbacks are dispatched at the multiples of tickMs and at
\* the millisecond after each multiple of timeoutMs, so that ages equal to,
\* below and one above timeoutMs all occur.
TimePoints == {t \in 0..MaxTime : t % tickMs = 0 \/ t % timeoutMs = 1}

Advance ==
    /\ \E t \in TimePoints : t > now /\ now' = t
    /\ last' = Idle("advance", 0)
    /\ UNCHANGED <<ackAt, clients, buckets, bucketIndex, startDelayTimer, tickTimer,
                   opts, readyState, listeners, watch, obs>>

Next ==
    \/ \E ws \in Sockets : AddClient(ws)
    \/ \E ws \in Sockets, terminate \in BOOLEAN : RemoveClient(ws, terminate)
    \/ Shutdown
    \/ Tick
    \/ StartDelayFire
    \/ \E ws \in Sockets : EmitPong(ws)
    \/ \E ws \in Sockets : EmitClose(ws)
    \/ \E ws \in Sockets : EmitError(ws)
    \/ \E ws \in Sockets : SocketCloses(ws)
    \/ Advance

Spec == Init /\ [][Next]_vars

\* The same manager and environment with the rotation observer running.
InitRotation ==
    /\ Constructed(IntervalOpts, TimeoutOpts, StartJitterOpts)
    /\ watch = "rotation"

\* Time passes, by whole tick periods: three ticks fit in MaxTimeRotation.
AdvanceTicks ==
    /\ \E t \in 0..MaxTimeRotation : t % tickMs = 0 /\ t > now /\ now' = t
    /\ last' = Idle("advance", 0)
    /\ UNCHANGED <<ackAt, clients, buckets, bucketIndex, startDelayTimer, tickTimer,
                   opts, readyState, listeners, watch, obs>>

NextRotation ==
    \/ \E ws \in Sockets : AddClient(ws)
    \/ \E ws \in Sockets, terminate \in BOOLEAN : RemoveClient(ws, terminate)
    \/ Shutdown
    \/ Tick
    \/ StartDelayFire
    \/ \E ws \in Sockets : EmitPong(ws)
    \/ \E ws \in Sockets : EmitClose(ws)
    \/ \E ws \in Sockets : EmitError(ws)
    \/ \E ws \in Sockets : SocketCloses(ws)
    \/ AdvanceTicks

SpecRotation == InitRotation /\ [][NextRotation]_vars

\* The manager with timers that fire on time, and the probe observer running.
InitTimed ==
    /\ Constructed(TimedIntervalOpts, TimedTimeoutOpts, TimedJitterOpts)
    /\ watch = "probes"

\* Time passes, but not beyond the due time of a timer that is set: a timer
\* callback runs at the instant it is due.  Callbacks are dispatched at the
\* instants at which a timer is due and, while no timer is set, at the
\* multiples of tickMs.
AdvanceTimed ==
    /\ \E t \in (now + 1)..MaxTimeTimed :
          /\ \A due \in startDelayTimer \cup tickTimer : t <= due
          /\ \/ t \in startDelayTimer \cup tickTimer
             \/ startDelayTimer \cup tickTimer = {} /\ t % tickMs = 0
          /\ now' = t
    /\ last' = Idle("advance", 0)
    /\ UNCHANGED <<ackAt, clients, buckets, bucketIndex, startDelayTimer, tickTimer,
                   opts, readyState, listeners, watch, obs>>

NextTimed ==
    \/ \E ws \in Sockets : AddClient(ws)
    \/ \E ws \in Sockets, terminate \in BOOLEAN : RemoveClient(ws, terminate)
    \/ Shutdown
    \/ Tick
    \/ StartDelayFire
    \/ \E ws \in Sockets : EmitPong(ws)
    \/ \E ws \in Sockets : EmitClose(ws)
    \/ \E ws \in Sockets : EmitError(ws)
    \/ \E ws \in Sockets : SocketCloses(ws)
    \/ AdvanceTimed

SpecTimed == InitTimed /\ [][NextTimed]_vars

\* The tick timer is due: Tick is enabled.
TickDue == tickTimer # {} /\ \A due \in tickTimer : now >= due

\* Timer callbacks that are due run, and time does not stand still.  The weak
\* fairness of Tick is written out, with TickDue for its enabling condition:
\* a Tick step is a step that records a tick.
SpecTimedFair ==
    /\ SpecTimed
    /\ WF_vars(StartDelayFire)
    /\ WF_vars(AdvanceTimed)
    /\ ([]<>(~TickDue) \/ []<><<last'.op = "tick">>_vars)

\* ======================================================================
\* Properties
\* ======================================================================
\* The bucket a tick sweeps and its tracked members, in the state the tick
\* starts from.
SweptBucket == buckets[bucketAt(buckets, bucketIndex)]
SweptTracked == SweptBucket \cap DOMAIN clients
Age(w) == now - clients[w].lastPongAt

\* C1 as stated: a tick terminates and removes an open tracked member of the
\* swept bucket if and only if now - lastPongAt > timeoutMs; a member whose age
\* is timeoutMs or less is not terminated, stays tracked and is sent a probe.
C1_Original ==
    [][last'.op = "tick" =>
        \A w \in SweptTracked : readyState[w] = WS_OPEN =>
            /\ (w \notin DOMAIN clients' /\ last'.terminated[w] > 0) <=> (Age(w) > timeoutMs)
            /\ Age(w) <= timeoutMs =>
                  /\ w \in DOMAIN clients'
                  /\ last'.terminated[w] = 0
                  /\ last'.pinged[w] = 1]_vars

\* C1 (amended): a tick terminates (once) and removes an open tracked member of
\* the swept bucket without probing it if now - lastPongAt > timeoutMs; a
\* member whose age is timeoutMs or less is sent one probe and, unless that
\* probe send raises, is not terminated and stays tracked.
C1_TimeoutBoundary ==
    [][last'.op = "tick" =>
        \A w \in SweptTracked : readyState[w] = WS_OPEN =>
            /\ Age(w) > timeoutMs =>
                  /\ w \notin DOMAIN clients'
                  /\ last'.terminated[w] = 1
                  /\ last'.pinged[w] = 0
            /\ Age(w) <= timeoutMs =>
                  /\ last'.pinged[w] = 1
                  /\ w \notin last'.pingThrew =>
                        /\ w \in DOMAIN clients'
                        /\ clients'[w] = clients[w]
                        /\ last'.terminated[w] = 0]_vars

\* One tick met both sides of the boundary: a member aged exactly timeoutMs was
\* probed and kept, a member aged timeoutMs + 1 was terminated and removed.
C1_Witness ==
    /\ last.op = "tick"
    /\ \E w, v \in DOMAIN last.swept :
          /\ now - last.swept[w].lastPongAt = timeoutMs
          /\ w \in DOMAIN clients /\ last.pinged[w] = 1 /\ last.terminated[w] = 0
          /\ now - last.swept[v].lastPongAt = timeoutMs + 1
          /\ v \notin DOMAIN clients /\ last.pinged[v] = 0 /\ last.terminated[v] = 1

\* C2 as stated: the deadline of a tracked connection runs from its most
\* recent pong event (or its enrollment), and a swept connection whose last
\* pong is at most timeoutMs old is not terminated and is sent exactly one
\* probe.
C2_Original ==
    /\ [](\A w \in DOMAIN clients : clients[w].lastPongAt = ackAt[w].at)
    /\ [][last'.op = "tick" =>
          \A w \in SweptTracked : now - ackAt[w].at <= timeoutMs =>
              /\ w \in DOMAIN clients'
              /\ last'.terminated[w] = 0
              /\ last'.pinged[w] = 1]_vars

\* C2 (amended): the deadline of a tracked connection runs from its most
\* recent pong event (or its enrollment), and a swept connection that is open
\* and whose last pong is at most timeoutMs old is sent exactly one probe and,
\* unless that probe send raises, is not terminated and stays tracked.
C2_PongResetsDeadline ==
    /\ [](\A w \in DOMAIN clients : clients[w].lastPongAt = ackAt[w].at)
    /\ [][last'.op = "tick" =>
          \A w \in SweptTracked :
              readyState[w] = WS_OPEN /\ now - ackAt[w].at <= timeoutMs =>
                  /\ last'.pinged[w] = 1
                  /\ w \notin last'.pingThrew =>
                        /\ w \in DOMAIN clients'
                        /\ last'.terminated[w] = 0]_vars

\* A tick probed and kept a connection whose pong came timeoutMs ago, at
\* instant 1; it was enrolled before that pong, so more than timeoutMs ago.
C2_Witness ==
    /\ last.op = "tick"
    /\ \E w \in DOMAIN clients \cap DOMAIN last.swept :
          /\ ackAt[w].byPong
          /\ ackAt[w].at = 1
          /\ now - ackAt[w].at = timeoutMs
          /\ last.pinged[w] = 1
          /\ last.terminated[w] = 0

\* C3: whenever the registry is empty, neither the startup-delay timer nor the
\* tick timer is set.
C3_NoTimerWithoutClients ==
    DOMAIN clients = {} => startDelayTimer = {} /\ tickTimer = {}

\* The sweep of a running tick timer removed the last tracked connection.
C3_Witness ==
    /\ last.op = "tick"
    /\ \E w \in DOMAIN last.swept : w \notin DOMAIN clients
    /\ DOMAIN clients = {}
    /\ tickTimer = {}

OneOfEach == [ev \in {"pong", "close", "error"} |-> 1]
ManagerState == <<clients, buckets, bucketIndex, startDelayTimer, tickTimer>>
InNoBucket(bs, w) == \A i \in DOMAIN bs : w \notin bs[i]
SocketEvents == {"pong", "close", "error"}

\* C4: between callbacks a socket carries one manager listener for each of
\* pong, close and error if it is tracked and none if it is not; a pong, close
\* or error event on an untracked socket changes no manager state.
C4_ListenersWhileTracked ==
    /\ [](\A w \in Sockets :
            listeners[w] = IF w \in DOMAIN clients THEN OneOfEach ELSE NoListeners)
    /\ [][last'.op \in SocketEvents /\ last'.ws \notin DOMAIN clients =>
            UNCHANGED ManagerState]_vars

\* An event arrived on an untracked socket while the manager tracked another
\* socket and had a timer set.
C4_Witness ==
    /\ last.op \in SocketEvents
    /\ ~last.was
    /\ DOMAIN clients # {}
    /\ tickTimer # {}

\* C5: addClient on an already tracked socket changes nothing: registry
\* (count, bucket, lastPongAt), buckets, listeners (one of each) and timers.
C5_AddClientIdempotent ==
    [][last'.op = "addClient" /\ last'.ws \in DOMAIN clients =>
        /\ UNCHANGED ManagerState
        /\ UNCHANGED listeners
        /\ listeners[last'.ws] = OneOfEach
        /\ ~last'.threw]_vars

\* addClient was called for a tracked socket at a later instant than its
\* enrollment, with a timer set.
C5_Witness ==
    /\ last.op = "addClient"
    /\ last.was
    /\ clients[last.ws].lastPongAt < now
    /\ tickTimer # {} \/ startDelayTimer # {}

\* C6: removeClient on an untracked socket, with or without the terminate
\* flag, raises nothing and leaves registry, buckets, cursor and timers as
\* they were.
C6_RemoveUntrackedNoop ==
    [][last'.op = "removeClient" /\ last'.ws \notin DOMAIN clients =>
        /\ UNCHANGED ManagerState
        /\ ~last'.threw]_vars

\* removeClient(ws, true) was called for an untracked socket whose terminate()
\* raised, while another socket was tracked.
C6_Witness ==
    /\ last.op = "removeClient"
    /\ ~last.was
    /\ last.flag
    /\ last.ws \in last.termThrew
    /\ DOMAIN clients # {}

\* C7: a close event on a tracked socket removes it from the registry and its
\* bucket without a terminate() call; an error event on a tracked socket
\* removes it with exactly one terminate() call, whether or not that call
\* raises.
C7_EventDrivenRemoval ==
    [][last'.op \in {"close", "error"} /\ last'.ws \in DOMAIN clients =>
        /\ last'.ws \notin DOMAIN clients'
        /\ InNoBucket(buckets', last'.ws)
        /\ last'.terminated[last'.ws] = (IF last'.op = "error" THEN 1 ELSE 0)
        /\ ~last'.threw]_vars

\* An error event removed a tracked socket whose terminate() raised.
C7_Witness ==
    /\ last.op = "error"
    /\ last.was
    /\ last.ws \in last.termThrew
    /\ last.terminated[last.ws] = 1
    /\ last.ws \notin DOMAIN clients

\* C8: a tick removes every tracked member of the swept bucket whose
\* readyState is not open, without a ping() and without a terminate() call,
\* whatever its age.
C8_NotOpenRemovedUnprobed ==
    [][last'.op = "tick" =>
        \A w \in SweptTracked : readyState[w] # WS_OPEN =>
            /\ w \notin DOMAIN clients'
            /\ InNoBucket(buckets', w)
            /\ last'.pinged[w] = 0
            /\ last'.terminated[w] = 0]_vars

\* A tick removed, unprobed and unterminated, a member that was not open and
\* whose age exceeded timeoutMs.
C8_Witness ==
    /\ last.op = "tick"
    /\ \E w \in DOMAIN last.swept :
          /\ now - last.swept[w].lastPongAt > timeoutMs
          /\ readyState[w] # WS_OPEN
          /\ w \notin DOMAIN clients
          /\ last.pinged[w] = 0
          /\ last.terminated[w] = 0

\* C9: a member whose ping() raises during a tick is probed once, terminated
\* once and removed; no exception leaves tick, every other tracked member of
\* the swept bucket is still probed or removed, and the cursor advances.
C9_ProbeFailureContained ==
    [][last'.op = "tick" =>
        /\ ~last'.threw
        /\ bucketIndex' = (bucketIndex + 1) % Cardinality(DOMAIN buckets)
        /\ \A w \in last'.pingThrew :
              /\ last'.pinged[w] = 1
              /\ last'.terminated[w] = 1
              /\ w \notin DOMAIN clients'
              /\ InNoBucket(buckets', w)
        /\ \A w \in SweptTracked :
              last'.pinged[w] = 1 \/ w \notin DOMAIN clients']_vars

\* In one tick the ping() and then the terminate() of a member raised, and a
\* member visited after it was probed and kept.
C9_Witness ==
    /\ last.op = "tick"
    /\ \E w, v \in DOMAIN last.swept :
          /\ w < v
          /\ w \in last.pingThrew /\ w \in last.termThrew
          /\ last.pinged[w] = 1 /\ last.terminated[w] = 1
          /\ w \notin DOMAIN clients
          /\ last.pinged[v] = 1 /\ v \in DOMAIN clients

\* C10: shutdown calls terminate() exactly once on every socket tracked when
\* it is called, also past calls that raise, and leaves the registry and every
\* bucket empty, no manager listener on those sockets and both timers unset.
C10_ShutdownClearsAll ==
    [][last'.op = "shutdown" =>
        /\ \A w \in DOMAIN clients :
              last'.terminated[w] = 1 /\ listeners'[w] = NoListeners
        /\ DOMAIN clients' = {}
        /\ \A i \in DOMAIN buckets' : buckets'[i] = {}
        /\ startDelayTimer' = {} /\ tickTimer' = {}
        /\ ~last'.threw]_vars

\* shutdown terminated two tracked sockets, the first of which raised.
C10_Witness ==
    /\ last.op = "shutdown"
    /\ \E w, v \in Sockets :
          /\ w < v
          /\ w \in last.termThrew
          /\ last.terminated[w] = 1 /\ last.terminated[v] = 1
    /\ DOMAIN clients = {}

\* C11: when removeClient(ws, true) calls terminate() on ws, no manager
\* listener (pong, close, error) is attached to ws any more: the listeners are
\* removed first, as the doc comment of removeClient says.
C11_TerminateAfterListenersRemoved ==
    last.op = "removeClient" /\ last.flag /\ last.terminated[last.ws] > 0 =>
        last.ws \notin last.termAttached
\* C12: in every state 0 <= bucketIndex < bucketCount; every tick changes the
\* cursor to (bucketIndex + 1) mod bucketCount, so from the last bucket it goes
\* to 0; no other operation changes the cursor.
C12_CursorRotation ==
    /\ [](bucketIndex \in 0..(Cardinality(DOMAIN buckets) - 1))
    /\ [][IF last'.op = "tick"
          THEN bucketIndex' = (bucketIndex + 1) % Cardinality(DOMAIN buckets)
          ELSE bucketIndex' = bucketIndex]_vars

\* A tick that swept a member of the last of several buckets left the cursor
\* at 0.
C12_Witness ==
    /\ last.op = "tick"
    /\ Cardinality(DOMAIN buckets) > 1
    /\ \E w \in DOMAIN last.swept :
          last.swept[w].bucket = Cardinality(DOMAIN buckets) - 1
    /\ bucketIndex = 0
\* C13: in every state each tracked connection is a member of exactly one
\* bucket, the one at the bucket index of its state, which stays what it was
\* at enrollment; no bucket holds an untracked connection; so a callback that
\* removes a registry entry removes the bucket membership as well.
C13_RegistryBucketConsistency ==
    /\ [](\A w \in Sockets : \A i \in DOMAIN buckets :
            w \in buckets[i] <=> (w \in DOMAIN clients /\ clients[w].bucket = i))
    /\ [][\A w \in DOMAIN clients \cap DOMAIN clients' :
            clients'[w].bucket = clients[w].bucket]_vars

\* A callback removed a tracked connection, which is now in no bucket, while a
\* connection of the last bucket is still tracked.
C13_Witness ==
    /\ last.was
    /\ last.ws \notin DOMAIN clients
    /\ InNoBucket(buckets, last.ws)
    /\ \E w \in DOMAIN clients : clients[w].bucket = Cardinality(DOMAIN buckets) - 1
\* C14: a tick examines (probes or removes) every tracked member of the bucket
\* at the cursor and touches no other connection; so a tracked connection
\* never sees bucketCount ticks in a row pass without being examined, and two
\* examinations of a connection that stayed tracked are bucketCount ticks
\* apart: of any bucketCount consecutive ticks exactly one examines it.
C14_RotationCoverage ==
    /\ [][last'.op = "tick" =>
            /\ \A w \in SweptTracked : last'.pinged[w] = 1 \/ w \notin DOMAIN clients'
            /\ \A w \in Sockets \ SweptBucket :
                  /\ last'.pinged[w] = 0
                  /\ last'.terminated[w] = 0
                  /\ w \in DOMAIN clients =>
                        w \in DOMAIN clients' /\ clients'[w] = clients[w]]_vars
    /\ [](\A w \in DOMAIN clients : obs[w].ticks < Cardinality(DOMAIN buckets))
    /\ [][last'.op = "tick" =>
            \A w \in DOMAIN clients \cap DOMAIN clients' :
                obs[w].examined /\ obs'[w].ticks = 0 =>
                    obs[w].ticks = Cardinality(DOMAIN buckets) - 1]_vars

\* Three ticks in a row have fired over two connections enrolled before the
\* first of them: the one in bucket 0 was examined by the first, has seen the
\* second pass and is examined again by the third, which passes over the one
\* in bucket 1 that the second examined.
C14_Witness ==
    /\ last.op = "tick"
    /\ now = 3 * tickMs
    /\ Cardinality(DOMAIN buckets) = 2
    /\ \E w, v \in DOMAIN clients :
          /\ clients[w].bucket = 0 /\ clients[v].bucket = 1
          /\ obs[w] = [ticks |-> 0, examined |-> TRUE]
          /\ obs[v] = [ticks |-> 1, examined |-> TRUE]
          /\ last.pinged[w] = 1 /\ last.pinged[v] = 0
\* C15: with timers that fire on time, a tracked connection that is open is
\* never found later than one rotation period (bucketCount x tickMs) after the
\* first instant at which now - lastPongAt exceeds timeoutMs: by then the sweep
\* has terminated and removed it, for every valid configuration, start jitter
\* included.
C15_DetectionLatency ==
    \A w \in DOMAIN clients : readyState[w] = WS_OPEN =>
        Age(w) <= timeoutMs + 1 + Cardinality(DOMAIN buckets) * tickMs
\* C16: at most one of startDelayTimer and tickTimer is set in any state; an
\* addClient that finds either set leaves both as they are; the startup-delay
\* callback clears startDelayTimer and sets the tick timer, one tick period
\* ahead, exactly if the registry is non-empty; shutdown (stopTimers) leaves
\* both unset, also when neither was set.
C16_TimerRoles ==
    /\ [](startDelayTimer = {} \/ tickTimer = {})
    /\ [][last'.op = "addClient" /\ (startDelayTimer # {} \/ tickTimer # {}) =>
            UNCHANGED <<startDelayTimer, tickTimer>>]_vars
    /\ [][last'.op = "startDelay" =>
            /\ startDelayTimer' = {}
            /\ tickTimer' = IF DOMAIN clients # {} THEN {now + tickMs} ELSE {}]_vars
    /\ [][last'.op = "shutdown" => startDelayTimer' = {} /\ tickTimer' = {}]_vars

\* The startup delay, during which a second connection was enrolled, has
\* elapsed and its callback has started the tick timer.
C16_Witness ==
    /\ last.op = "startDelay"
    /\ startDelayTimer = {}
    /\ tickTimer = {now + tickMs}
    /\ \E w, v \in DOMAIN clients : ackAt[w].at < ackAt[v].at /\ ~ackAt[v].byPong
Removed == DOMAIN obs \ DOMAIN clients

\* C18: removeClient, a close or error event, shutdown, and a timeout or probe
\* failure in tick leave the connection untracked; a tick makes no ping() and
\* no terminate() call on an untracked connection; only addClient for it makes
\* a connection tracked, with lastPongAt set to the instant of that call.
C18_RemovedStaysOut ==
    /\ [][/\ last'.op \in {"removeClient", "close", "error"} =>
                last'.ws \notin DOMAIN clients'
          /\ last'.op = "shutdown" => DOMAIN clients' = {}
          /\ last'.op = "tick" =>
                \A w \in Sockets :
                    last'.terminated[w] > 0 \/ w \in last'.pingThrew =>
                        w \notin DOMAIN clients']_vars
    /\ [][last'.op = "tick" =>
            \A w \in Sockets \ DOMAIN clients :
                last'.pinged[w] = 0 /\ last'.terminated[w] = 0]_vars
    /\ [][\A w \in DOMAIN clients' \ DOMAIN clients :
            /\ last'.op = "addClient"
            /\ last'.ws = w
            /\ clients'[w].lastPongAt = now]_vars

\* A tick probed a tracked connection, enrolled after instant 0, and made no
\* call on a connection that had been tracked and removed before.
C18_Witness ==
    /\ last.op = "tick"
    /\ \E w \in Removed, v \in DOMAIN clients :
          /\ last.pinged[w] = 0 /\ last.terminated[w] = 0
          /\ last.pinged[v] = 1
          /\ ~ackAt[v].byPong /\ ackAt[v].at > 0
\* C19: with timers that fire on time, a responsive connection is never
\* force-terminated by the sweep: a tick makes no terminate() call on a swept
\* connection that is open, whose ping() does not raise, and to which every
\* probe sent so far was answered by a pong before the next tick fired (none
\* is unanswered now), also when no probe has been sent to it yet.
C19_ResponsiveNeverTimedOut ==
    [][last'.op = "tick" =>
        \A w \in SweptTracked :
            /\ readyState[w] = WS_OPEN
            /\ ~obs[w].awaiting
            /\ ~obs[w].lapsed
            /\ w \notin last'.pingThrew
            => last'.terminated[w] = 0]_vars
\* C20: at every callback boundary with a non-empty registry exactly one of
\* the startup-delay timer and the tick timer is set; and, timers firing
\* fairly, a connection tracked at instant 0 (MaxTimeTimed leaves room for the
\* longest startup delay and a tick after it) is eventually swept: it is sent
\* a probe or it is removed.
C20_TrackedHaveTimer ==
    /\ [](DOMAIN clients # {} => (startDelayTimer = {}) # (tickTimer = {}))
    /\ \A w \in Sockets :
          (w \in DOMAIN clients /\ now = 0) ~> (w \notin DOMAIN clients \/ obs[w].awaiting)

\* The first tick after a startup delay of 1 has probed a tracked connection,
\* whose deadline a pong had refreshed, and the tick timer is set for the next
\* tick.
C20_Witness ==
    /\ last.op = "tick"
    /\ now = 1 + tickMs
    /\ startDelayTimer = {}
    /\ tickTimer = {now + tickMs}
    /\ \E w \in DOMAIN clients :
          obs[w].awaiting /\ last.pinged[w] = 1 /\ ackAt[w].byPong
====
